---- MODULE Spec2Model ----
(***************************************************************************)
(* rust-dump-analyzer: the chunked detection engine (analyze_dump,         *)
(* find_ascii_strings, detect_patterns) and the interactive browser loop   *)
(* (run_ui) of src/main.rs.                                                *)
(*                                                                         *)
(* Bytes are integers 0..255.  A String is a sequence of one-character     *)
(* strings.  Rust indices are 0-based; sequences here are 1-based, so the  *)
(* Rust element v[i] is v[i + 1].                                          *)
(***************************************************************************)
EXTENDS Integers, Sequences, FiniteSets, TLC

VARIABLES
    pc,             \* position of main: "scan", "scanned", "draw", "poll", "done"
    data,           \* analyze_dump: the buffer read from the dump file
    patterns,       \* main: the signature table
    chunk_size,     \* analyze_dump parameter
    min_string_length, \* analyze_dump parameter
    chunk_i,        \* analyze_dump: index i of the next chunk of data.chunks(chunk_size)
    all_results,    \* analyze_dump: all_results (the FindingStore)
    pattern_count,  \* analyze_dump: pattern_count
    ascii_count,    \* analyze_dump: ascii_count
    summary,        \* analyze_dump: the Summary returned, NoSummary before
    selected_index, \* run_ui: selected_index
    scroll_offset,  \* run_ui: scroll_offset
    max_scroll,     \* run_ui: max_scroll
    popup_mode,     \* run_ui: popup_mode, "None", "Search" or "GoToAddress"
    input,          \* run_ui: input
    error_message,  \* run_ui: error_message, NoMessage for Option::None
    last,           \* run_ui: the (code, &popup_mode) matched in this iteration of
                    \* the loop, NoKey when none was
    nav,            \* history: where the current run of Up/Down presses began
                    \* and its net movement (Down presses minus Up presses)
    frame,          \* run_ui: what the last terminal.draw rendered, NoFrame before
    terminal        \* main: whether raw mode is on, and main's step around run_ui

dumpvars == <<data, patterns, chunk_size, min_string_length, chunk_i,
              all_results, pattern_count, ascii_count, summary>>
uivars == <<selected_index, scroll_offset, max_scroll, popup_mode, input,
            error_message, last>>
vars == <<pc, dumpvars, uivars, nav, frame, terminal>>

----------------------------------------------------------------------------
(* Bounds of the model *)

MaxLen == 5         \* longest buffer of ScanSpec
MaxChunk == 3       \* largest chunk_size of ScanSpec
MaxMin == 2         \* largest min_string_length of ScanSpec
MaxInput == 3       \* longest input typed into a popup
MaxRows == 1        \* tallest list area the layout reports
MaxNet == 3         \* largest net movement of a run of Up/Down presses in NavSpec

SPACE == 32         \* b' '

(* The byte values buffers are built from: the control byte 0x04, the      *)
(* space character and the graphic character 0x44, 'D'.                    *)
Sample == [eot |-> 4, d |-> 68]
EOT == Sample.eot
LetterD == Sample.d
Alphabet == {EOT, SPACE, LetterD}

----------------------------------------------------------------------------
(* Helpers on sequences *)

Min2(a, b) == IF a < b THEN a ELSE b

(* &s[from..] for a 0-based from <= len *)
SliceFrom(s, from) == SubSeq(s, from + 1, Len(s))

(* All sequences over S of length 0..n *)
SeqsUpTo(S, n) == UNION {[1..k -> S] : k \in 0..n}

None == [some |-> FALSE, val |-> 0]
Some(v) == [some |-> TRUE, val |-> v]

----------------------------------------------------------------------------
(* Pattern, ResultEntry, Summary *)

Pattern(n, b) == [name |-> n, bytes |-> b]

(* ResultEntry.  content is format!("Pattern '{}'", name) or              *)
(* format!("ASCII String '{}'", text): kind is the literal prefix, name    *)
(* the pattern's name ("" for an ASCII String, whose text is its bytes).   *)
ResultEntry(k, n, a, b) == [kind |-> k, name |-> n, address |-> a, bytes |-> b]

PatternEntry(p, a) == ResultEntry("Pattern", p.name, a, p.bytes)
AsciiEntry(a, b) == ResultEntry("ASCII String", "", a, b)

NoSummary == [total_entries |-> -1, total_patterns |-> -1, total_ascii_strings |-> -1]

(* Signature tables: the table of main has the shape of TableAB (several   *)
(* patterns, none empty); TableDD has a pattern that overlaps itself and   *)
(* is printable.                                                           *)
TableAB == << Pattern("AB", <<LetterD, EOT>>), Pattern("B", <<EOT>>) >>
TableDD == << Pattern("DD", <<LetterD, LetterD>>) >>
TableNone == << >>
SignatureTables == {TableAB, TableDD, TableNone}

----------------------------------------------------------------------------
(* u8::is_ascii_graphic: b'!'..=b'~' *)
is_ascii_graphic(byte) == byte >= 33 /\ byte <= 126

(* the test of find_ascii_strings *)
IsRunByte(byte) == is_ascii_graphic(byte) \/ byte = SPACE

(* current_string.len() >= min_length, the test of both pushes (the       *)
(* strict comparison is the off-by-one slip)                               *)
LongerThan(current_string, min_length) == Len(current_string) > min_length

LongEnough(current_string, min_length) == Len(current_string) >= min_length

(* find_ascii_strings: the loop over chunk.iter().enumerate() from         *)
(* 0-based position i, with the loop's locals result, current_string and   *)
(* start_index, then the push after the loop.                              *)
RECURSIVE AsciiLoop(_, _, _, _, _, _, _)
AsciiLoop(chunk, chunk_offset, min_length, i, result, current_string, start_index) ==
    IF i >= Len(chunk)
    THEN IF LongEnough(current_string, min_length)
         THEN Append(result, AsciiEntry(chunk_offset + start_index, current_string))
         ELSE result
    ELSE LET byte == chunk[i + 1] IN
         IF IsRunByte(byte)
         THEN AsciiLoop(chunk, chunk_offset, min_length, i + 1, result,
                        Append(current_string, byte),
                        IF current_string = <<>> THEN i ELSE start_index)
         ELSE IF LongEnough(current_string, min_length)
         THEN AsciiLoop(chunk, chunk_offset, min_length, i + 1,
                        Append(result, AsciiEntry(chunk_offset + start_index, current_string)),
                        <<>>, start_index)
         ELSE AsciiLoop(chunk, chunk_offset, min_length, i + 1, result, <<>>, start_index)

find_ascii_strings(chunk, chunk_offset, min_length) ==
    AsciiLoop(chunk, chunk_offset, min_length, 0, <<>>, <<>>, 0)

(* memchr::memmem::find: the 0-based offset of the first occurrence of     *)
(* needle in haystack                                                      *)
OccursAt(haystack, needle, pos) ==
    /\ pos + Len(needle) <= Len(haystack)
    /\ \A j \in 1..Len(needle) : haystack[pos + j] = needle[j]

memmem_find(haystack, needle) ==
    LET hits == {pos \in 0..Len(haystack) : OccursAt(haystack, needle, pos)} IN
    IF hits = {} THEN None
    ELSE Some(CHOOSE pos \in hits : \A q \in hits : pos <= q)

(* start += pos + 1: where detect_patterns resumes after a match at pos    *)
(* (resuming after the whole match would skip overlapping occurrences)     *)
NextStartPastMatch(start, pos, pattern) == start + pos + Len(pattern.bytes)

NextStart(start, pos, pattern) == start + pos + 1

(* The same loop reporting the offset inside the chunk, without the        *)
(* chunk's offset in the file                                              *)
RECURSIVE PatternLoopRelative(_, _, _, _)
PatternLoopRelative(chunk, chunk_offset, pattern, start) ==
    LET hits == {pos \in start..Len(chunk) : OccursAt(chunk, pattern.bytes, pos)} IN
    IF hits = {} THEN <<>>
    ELSE LET at == CHOOSE pos \in hits : \A q \in hits : pos <= q IN
         <<[kind |-> "Pattern", name |-> pattern.name, address |-> at,
            bytes |-> pattern.bytes]>>
         \o PatternLoopRelative(chunk, chunk_offset, pattern, at + 1)

(* detect_patterns: the while-let loop for one pattern, from start *)
RECURSIVE PatternLoop(_, _, _, _)
PatternLoop(chunk, chunk_offset, pattern, start) ==
    LET found == memmem_find(SliceFrom(chunk, start), pattern.bytes) IN
    IF ~found.some THEN <<>>
    ELSE <<PatternEntry(pattern, chunk_offset + start + found.val)>>
         \o PatternLoop(chunk, chunk_offset, pattern, NextStart(start, found.val, pattern))

(* detect_patterns: the for loop over the table, from 1-based index k *)
RECURSIVE TableLoop(_, _, _, _)
TableLoop(chunk, chunk_offset, table, k) ==
    IF k > Len(table) THEN <<>>
    ELSE PatternLoop(chunk, chunk_offset, table[k], 0)
         \o TableLoop(chunk, chunk_offset, table, k + 1)

detect_patterns(chunk, chunk_offset, table) == TableLoop(chunk, chunk_offset, table, 1)

----------------------------------------------------------------------------
(* analyze_dump *)

(* A chunk read with one byte of the next chunk after it *)
ChunkWithLookahead(d, cs, i) ==
    SubSeq(d, i * cs + 1, IF (i + 1) * cs + 1 <= Len(d) THEN (i + 1) * cs + 1 ELSE Len(d))

(* data.chunks(chunk_size): the number of chunks and the i-th (0-based) *)
NumChunks(d, cs) == (Len(d) + cs - 1) \div cs
Chunk(d, cs, i) == SubSeq(d, i * cs + 1, Min2((i + 1) * cs, Len(d)))

(* all_results.extend(ascii_results); all_results.extend(pattern_results): *)
(* what one iteration appends (and the two vectors in the other order)     *)
PatternsFirst(ascii_results, pattern_results) == pattern_results \o ascii_results

ChunkResults(ascii_results, pattern_results) == ascii_results \o pattern_results

(* One iteration of the for loop over data.chunks(chunk_size).enumerate() *)
ProcessChunk ==
    /\ pc = "scan"
    /\ chunk_i < NumChunks(data, chunk_size)
    /\ LET chunk == Chunk(data, chunk_size, chunk_i)
           chunk_offset == chunk_i * chunk_size
           ascii_results == find_ascii_strings(chunk, chunk_offset, min_string_length)
           pattern_results == detect_patterns(chunk, chunk_offset, patterns)
       IN /\ ascii_count' = ascii_count + Len(ascii_results)
          /\ pattern_count' = pattern_count + Len(pattern_results)
          /\ all_results' = all_results \o ChunkResults(ascii_results, pattern_results)
    /\ chunk_i' = chunk_i + 1
    /\ UNCHANGED <<pc, data, patterns, chunk_size, min_string_length, summary>>
    /\ UNCHANGED <<uivars, nav, frame, terminal>>

(* The end of the loop with total_patterns taken from the whole store *)
FinishScanMiscounted ==
    /\ pc = "scan"
    /\ chunk_i >= (Len(data) + chunk_size - 1) \div chunk_size
    /\ summary' = [total_entries |-> Len(all_results),
                   total_patterns |-> Len(all_results),
                   total_ascii_strings |-> ascii_count]
    /\ pc' = "scanned"
    /\ UNCHANGED <<data, patterns, chunk_size, min_string_length, chunk_i,
                   all_results, pattern_count, ascii_count>>
    /\ UNCHANGED <<uivars, nav, frame, terminal>>

(* The end of the loop: the Summary is built and analyze_dump returns *)
FinishScan ==
    /\ pc = "scan"
    /\ chunk_i >= NumChunks(data, chunk_size)
    /\ summary' = [total_entries |-> Len(all_results),
                   total_patterns |-> pattern_count,
                   total_ascii_strings |-> ascii_count]
    /\ pc' = "scanned"
    /\ UNCHANGED <<data, patterns, chunk_size, min_string_length, chunk_i,
                   all_results, pattern_count, ascii_count>>
    /\ UNCHANGED <<uivars, nav, frame, terminal>>

----------------------------------------------------------------------------
(* Parsing of the popup's input *)

DecDigits == <<"0", "1", "2", "3", "4", "5", "6", "7", "8", "9">>
LowerHex == <<"a", "b", "c", "d", "e", "f">>
UpperHex == <<"A", "B", "C", "D", "E", "F">>

(* char::to_digit(16): the digit's value, -1 when ch is no hex digit *)
to_digit(ch) ==
    IF \E v \in 1..10 : DecDigits[v] = ch
    THEN (CHOOSE v \in 1..10 : DecDigits[v] = ch) - 1
    ELSE IF \E v \in 1..6 : LowerHex[v] = ch
    THEN (CHOOSE v \in 1..6 : LowerHex[v] = ch) + 9
    ELSE IF \E v \in 1..6 : UpperHex[v] = ch
    THEN (CHOOSE v \in 1..6 : UpperHex[v] = ch) + 9
    ELSE -1

RECURSIVE HexValue(_)
HexValue(digits) ==
    IF digits = <<>> THEN 0
    ELSE 16 * HexValue(SubSeq(digits, 1, Len(digits) - 1)) + to_digit(digits[Len(digits)])

RECURSIVE SkipZeros(_)
SkipZeros(digits) ==
    IF digits # <<>> /\ digits[1] = "0" THEN SkipZeros(Tail(digits)) ELSE digits

(* uN::from_str_radix(src, 16) for an unsigned type of `bits` bits: an     *)
(* empty string, a lone sign, a '-' or any other non-digit are errors, one *)
(* leading '+' is accepted, and a value of more than bits / 4 significant  *)
(* hex digits overflows.                                                   *)
from_str_radix(src, bits) ==
    IF src = <<>> THEN None
    ELSE IF Len(src) = 1 /\ src[1] \in {"+", "-"} THEN None
    ELSE LET digits == IF src[1] = "+" THEN Tail(src) ELSE src IN
         IF \E j \in 1..Len(digits) : to_digit(digits[j]) < 0 THEN None
         ELSE IF 4 * Len(SkipZeros(digits)) > bits THEN None
         ELSE Some(HexValue(digits))

U8Bits == 8
UsizeBits == 64

(* hex_string_to_bytes: the characters in chunks of two (the last chunk    *)
(* may hold one), each parsed as a u8, collected into an Option<Vec<u8>>   *)
RECURSIVE hex_string_to_bytes(_)
hex_string_to_bytes(hex) ==
    IF hex = <<>> THEN Some(<<>>)
    ELSE LET n == Min2(2, Len(hex))
             byte == from_str_radix(SubSeq(hex, 1, n), U8Bits)
             rest == hex_string_to_bytes(SubSeq(hex, n + 1, Len(hex)))
         IN IF byte.some /\ rest.some THEN Some(<<byte.val>> \o rest.val) ELSE None

(* str::trim_start_matches("0x"): every leading repetition is removed *)
RECURSIVE trim_start_matches_0x(_)
trim_start_matches_0x(str) ==
    IF Len(str) >= 2 /\ str[1] = "0" /\ str[2] = "x"
    THEN trim_start_matches_0x(SubSeq(str, 3, Len(str)))
    ELSE str

(* usize::from_str_radix(input.trim_start_matches("0x"), 16) *)
ParseAddress(str) == from_str_radix(trim_start_matches_0x(str), UsizeBits)

----------------------------------------------------------------------------
(* run_ui: keys, modes and messages *)

NoMessage == "<none>"
NoMatchFound == "No match found"
InvalidHexFormat == "Invalid hex format"
AddressNotFound == "Address not found"
InvalidAddressFormat == "Invalid address format"

KeyCode(k, c) == [key |-> k, c |-> c]
Char(c) == KeyCode("Char", c)
Enter == KeyCode("Enter", "")
Esc == KeyCode("Esc", "")
Backspace == KeyCode("Backspace", "")
Up == KeyCode("Up", "")
Down == KeyCode("Down", "")
Left == KeyCode("Left", "")

(* The keys the operator presses *)
Chars == {"/", "g", "q", "0", "4", "x"}
KeyCodes == {Char(c) : c \in Chars} \cup {Enter, Esc, Backspace, Up, Down, Left}

PopupModes == {"Search", "GoToAddress"}

Matched(code, mode) == [code |-> code, mode |-> mode]
NoKey == Matched(KeyCode("", ""), "")

(* results.len().saturating_sub(1) (and the length itself, one too many) *)
LenOf(results) == Len(results)

MaxScrollOf(results) == IF Len(results) = 0 THEN 0 ELSE Len(results) - 1

(* results.iter().position(|e| e.bytes == bytes), 0-based (and the last    *)
(* such position)                                                          *)
LastPositionBytes(results, bytes) ==
    LET hits == {j \in 1..Len(results) : results[j].bytes = bytes} IN
    IF hits = {} THEN None
    ELSE Some((CHOOSE j \in hits : \A q \in hits : q <= j) - 1)

PositionBytes(results, bytes) ==
    LET hits == {j \in 1..Len(results) : results[j].bytes = bytes} IN
    IF hits = {} THEN None
    ELSE Some((CHOOSE j \in hits : \A q \in hits : j <= q) - 1)

(* results.iter().position(|e| e.address >= addr), 0-based (and the        *)
(* position of the least such address)                                     *)
NearestPositionAddress(results, addr) ==
    LET hits == {j \in 1..Len(results) : results[j].address >= addr} IN
    IF hits = {} THEN None
    ELSE Some((CHOOSE j \in hits : \A q \in hits :
                  \/ results[j].address < results[q].address
                  \/ results[j].address = results[q].address /\ j <= q) - 1)

PositionAddress(results, addr) ==
    LET hits == {j \in 1..Len(results) : results[j].address >= addr} IN
    IF hits = {} THEN None
    ELSE Some((CHOOSE j \in hits : \A q \in hits : j <= q) - 1)

----------------------------------------------------------------------------
(* run_ui: the loop *)

(* main's steps around run_ui (enable_raw_mode, execute!(Clear),            *)
(* Terminal::new, run_ui, disable_raw_mode) and the terminal's mode         *)
Terminal(raw_mode, step) == [raw_mode |-> raw_mode, step |-> step]
Cooked == Terminal(FALSE, "enable_raw_mode")
InRunUI == Terminal(TRUE, "run_ui")

(* main, after analyze_dump returned: the terminal is set up and run_ui    *)
(* begins with its locals initialised                                      *)
StartUI ==
    /\ pc = "scanned"
    /\ selected_index' = 0
    /\ scroll_offset' = 0
    /\ max_scroll' = MaxScrollOf(all_results)
    /\ popup_mode' = "None"
    /\ input' = <<>>
    /\ error_message' = NoMessage
    /\ pc' = "draw"
    /\ terminal' = InRunUI
    /\ UNCHANGED <<dumpvars, last, nav, frame>>

(* a.saturating_sub(b) *)
saturating_sub(a, b) == IF a >= b THEN a - b ELSE 0

(* terminal.draw's closure, the left column: results.iter().enumerate()    *)
(* .skip(scroll_offset).take(list_height), each item with its index and    *)
(* whether it is styled as the selected one                                *)
VisibleItems(list_height) ==
    LET rest == saturating_sub(Len(all_results), scroll_offset)
    IN [r \in 1..Min2(rest, list_height) |->
            [index |-> scroll_offset + r - 1,
             entry |-> all_results[scroll_offset + r],
             highlighted |-> scroll_offset + r - 1 = selected_index]]

(* the right column: results.get(selected_index) with its context, the    *)
(* entries whose address is within 16 of the selected address              *)
InContext(selected, e) ==
    /\ e.address >= saturating_sub(selected.address, 16)
    /\ e.address <= selected.address + 16

Details ==
    IF selected_index < Len(all_results)
    THEN LET selected == all_results[selected_index + 1]
         IN <<[selected |-> selected,
               context |-> SelectSeq(all_results, LAMBDA e : InContext(selected, e))]>>
    ELSE <<>>

(* the menu bar and the popup: the input and the error are shown only     *)
(* when popup_mode is not None                                             *)
Popup ==
    IF popup_mode = "None" THEN <<>>
    ELSE <<[title |-> popup_mode, input |-> input, error |-> error_message]>>

(* everything one call of terminal.draw renders for a list area of        *)
(* list_height rows                                                        *)
Frame(list_height) ==
    [list_height |-> list_height,
     items |-> VisibleItems(list_height),
     details |-> Details,
     summary |-> summary,
     popup |-> Popup]

NoFrame ==
    [list_height |-> -1, items |-> <<>>, details |-> <<>>, summary |-> NoSummary,
     popup |-> <<>>]

(* The closure's adjustment with the window's last row counted twice *)
DrawStepOffByOne(list_height) ==
    /\ pc = "draw"
    /\ scroll_offset' =
            IF selected_index < scroll_offset THEN selected_index
            ELSE IF selected_index >= scroll_offset + list_height
            THEN selected_index - list_height
            ELSE scroll_offset
    /\ last' = NoKey
    /\ pc' = "poll"
    /\ UNCHANGED <<dumpvars, selected_index, max_scroll, popup_mode, input,
                   error_message, nav, terminal>>

(* The start of an iteration, terminal.draw for a list area of             *)
(* list_height rows: the widgets are built, and the closure then adjusts   *)
(* scroll_offset                                                           *)
DrawStep(list_height) ==
    /\ pc = "draw"
    /\ scroll_offset' =
            IF selected_index < scroll_offset THEN selected_index
            ELSE IF selected_index >= scroll_offset + list_height
            THEN selected_index - list_height + 1
            ELSE scroll_offset
    /\ last' = NoKey
    /\ pc' = "poll"
    /\ UNCHANGED <<dumpvars, selected_index, max_scroll, popup_mode, input,
                   error_message, nav, terminal>>

(* terminal.draw, the rendered frame not recorded *)
Draw == \E list_height \in 0..MaxRows : DrawStep(list_height) /\ UNCHANGED frame

(* terminal.draw, the rendered frame recorded *)
Render == \E list_height \in 0..MaxRows :
              DrawStep(list_height) /\ frame' = Frame(list_height)

(* poll timed out, or the event read is no key event *)
PollIdle ==
    /\ pc = "poll"
    /\ last' = NoKey
    /\ pc' = "draw"
    /\ UNCHANGED <<dumpvars, selected_index, scroll_offset, max_scroll, popup_mode,
                   input, error_message, nav, frame, terminal>>

(* The patterns of the match on (code, &popup_mode), arm by arm *)
IsOpenSearch(code, mode) == code = Char("/") /\ mode = "None"
IsOpenGoTo(code, mode) == code = Char("g") /\ mode = "None"
IsEnterSearch(code, mode) == code = Enter /\ mode = "Search"
IsEnterGoTo(code, mode) == code = Enter /\ mode = "GoToAddress"
IsCancel(code, mode) == code = Esc /\ mode \in PopupModes
IsPush(code, mode) == code.key = "Char" /\ mode \in PopupModes
IsPop(code, mode) == code = Backspace /\ mode \in PopupModes
IsUp(code, mode) == code = Up /\ mode = "None"
IsDown(code, mode) == code = Down /\ mode = "None"

(* (KeyCode::Esc | KeyCode::Char('q'), PopupMode::None) => break (and the  *)
(* same keys whatever the mode)                                            *)
IsBreakAnyMode(code, mode) == code \in {Esc, Char("q")}

IsBreak(code, mode) == code \in {Esc, Char("q")} /\ mode = "None"

(* (the '/' arm without input.clear()) *)
OpenSearchKeeping(code) ==
    /\ code = Char("/") /\ popup_mode = "None"
    /\ popup_mode' = "Search"
    /\ error_message' = NoMessage
    /\ pc' = "draw"
    /\ UNCHANGED <<selected_index, input>>

OpenSearch(code) ==
    /\ IsOpenSearch(code, popup_mode)
    /\ popup_mode' = "Search"
    /\ input' = <<>>
    /\ error_message' = NoMessage
    /\ pc' = "draw"
    /\ UNCHANGED selected_index

OpenGoTo(code) ==
    /\ IsOpenGoTo(code, popup_mode)
    /\ popup_mode' = "GoToAddress"
    /\ input' = <<>>
    /\ error_message' = NoMessage
    /\ pc' = "draw"
    /\ UNCHANGED selected_index

(* (the Search arm with the popup closed on a miss too) *)
EnterSearchClosing(code) ==
    /\ IsEnterSearch(code, popup_mode)
    /\ LET bytes == hex_string_to_bytes(input) IN
       IF bytes.some
       THEN LET index == PositionBytes(all_results, bytes.val) IN
            IF index.some
            THEN /\ selected_index' = index.val
                 /\ popup_mode' = "None"
                 /\ UNCHANGED error_message
            ELSE /\ error_message' = NoMatchFound
                 /\ popup_mode' = "None"
                 /\ UNCHANGED selected_index
       ELSE /\ error_message' = InvalidHexFormat
            /\ UNCHANGED <<selected_index, popup_mode>>
    /\ pc' = "draw"
    /\ UNCHANGED input

EnterSearch(code) ==
    /\ IsEnterSearch(code, popup_mode)
    /\ LET bytes == hex_string_to_bytes(input) IN
       IF bytes.some
       THEN LET index == PositionBytes(all_results, bytes.val) IN
            IF index.some
            THEN /\ selected_index' = index.val
                 /\ popup_mode' = "None"
                 /\ UNCHANGED error_message
            ELSE /\ error_message' = NoMatchFound
                 /\ UNCHANGED <<selected_index, popup_mode>>
       ELSE /\ error_message' = InvalidHexFormat
            /\ UNCHANGED <<selected_index, popup_mode>>
    /\ pc' = "draw"
    /\ UNCHANGED input

EnterGoTo(code) ==
    /\ IsEnterGoTo(code, popup_mode)
    /\ LET addr == ParseAddress(input) IN
       IF addr.some
       THEN LET index == PositionAddress(all_results, addr.val) IN
            IF index.some
            THEN /\ selected_index' = index.val
                 /\ popup_mode' = "None"
                 /\ UNCHANGED error_message
            ELSE /\ error_message' = AddressNotFound
                 /\ UNCHANGED <<selected_index, popup_mode>>
       ELSE /\ error_message' = InvalidAddressFormat
            /\ UNCHANGED <<selected_index, popup_mode>>
    /\ pc' = "draw"
    /\ UNCHANGED input

(* (the Esc arm of a popup leaving the popup open) *)
CancelStaying(code) ==
    /\ code = Esc /\ popup_mode \in {"Search", "GoToAddress"}
    /\ pc' = "draw"
    /\ UNCHANGED <<selected_index, popup_mode, input, error_message>>

(* (the Esc arm of a popup clearing the input as well) *)
CancelDiscarding(code) ==
    /\ code = Esc /\ popup_mode \in {"Search", "GoToAddress"}
    /\ popup_mode' = "None"
    /\ input' = <<>>
    /\ pc' = "draw"
    /\ UNCHANGED <<selected_index, error_message>>

Cancel(code) ==
    /\ IsCancel(code, popup_mode)
    /\ popup_mode' = "None"
    /\ pc' = "draw"
    /\ UNCHANGED <<selected_index, input, error_message>>

Push(code) ==
    /\ IsPush(code, popup_mode)
    /\ input' = Append(input, code.c)
    /\ pc' = "draw"
    /\ UNCHANGED <<selected_index, popup_mode, error_message>>

Pop(code) ==
    /\ IsPop(code, popup_mode)
    /\ input' = IF input = <<>> THEN input ELSE SubSeq(input, 1, Len(input) - 1)
    /\ pc' = "draw"
    /\ UNCHANGED <<selected_index, popup_mode, error_message>>

(* (the Up arm wrapping from the first entry to the last) *)
KeyUpWrapping(code) ==
    /\ IsUp(code, popup_mode)
    /\ selected_index' = IF selected_index > 0 THEN selected_index - 1 ELSE max_scroll
    /\ pc' = "draw"
    /\ UNCHANGED <<popup_mode, input, error_message>>

KeyUp(code) ==
    /\ IsUp(code, popup_mode)
    /\ selected_index' = IF selected_index > 0 THEN selected_index - 1 ELSE selected_index
    /\ pc' = "draw"
    /\ UNCHANGED <<popup_mode, input, error_message>>

KeyDown(code) ==
    /\ IsDown(code, popup_mode)
    /\ selected_index' = IF selected_index < max_scroll THEN selected_index + 1
                         ELSE selected_index
    /\ pc' = "draw"
    /\ UNCHANGED <<popup_mode, input, error_message>>

Break(code) ==
    /\ IsBreak(code, popup_mode)
    /\ pc' = "done"
    /\ UNCHANGED <<selected_index, popup_mode, input, error_message>>

(* _ => {} *)
Ignored(code) ==
    /\ ~IsOpenSearch(code, popup_mode) /\ ~IsOpenGoTo(code, popup_mode)
    /\ ~IsEnterSearch(code, popup_mode) /\ ~IsEnterGoTo(code, popup_mode)
    /\ ~IsCancel(code, popup_mode) /\ ~IsPush(code, popup_mode)
    /\ ~IsPop(code, popup_mode) /\ ~IsUp(code, popup_mode)
    /\ ~IsDown(code, popup_mode) /\ ~IsBreak(code, popup_mode)
    /\ pc' = "draw"
    /\ UNCHANGED <<selected_index, popup_mode, input, error_message>>

(* poll reported an event and event::read returned Event::Key with `code`: *)
(* the match on (code, &popup_mode).  A character is typed into a popup    *)
(* only while the input is shorter than MaxInput.                          *)
KeyStep(code) ==
    /\ pc = "poll"
    /\ IsPush(code, popup_mode) => Len(input) < MaxInput
    /\ last' = Matched(code, popup_mode)
    /\ \/ OpenSearch(code)
       \/ OpenGoTo(code)
       \/ EnterSearch(code)
       \/ EnterGoTo(code)
       \/ Cancel(code)
       \/ Push(code)
       \/ Pop(code)
       \/ KeyUp(code)
       \/ KeyDown(code)
       \/ Break(code)
       \/ Ignored(code)
    /\ UNCHANGED <<dumpvars, scroll_offset, max_scroll>>

KeyEvent(code) == KeyStep(code) /\ UNCHANGED <<nav, frame, terminal>>

----------------------------------------------------------------------------
(* Specifications *)

NoNav == [initial |-> 0, net |-> 0]

ScanStart ==
    /\ pc = "scan"
    /\ chunk_i = 0
    /\ all_results = <<>>
    /\ pattern_count = 0
    /\ ascii_count = 0
    /\ summary = NoSummary
    /\ selected_index = 0
    /\ scroll_offset = 0
    /\ max_scroll = 0
    /\ popup_mode = "None"
    /\ input = <<>>
    /\ error_message = NoMessage
    /\ last = NoKey
    /\ nav = NoNav
    /\ frame = NoFrame
    /\ terminal = Cooked

(* The scan alone, over every buffer, chunk size, minimum length and table *)
ScanInit ==
    /\ data \in SeqsUpTo(Alphabet, MaxLen)
    /\ patterns \in SignatureTables
    /\ chunk_size \in 1..MaxChunk
    /\ min_string_length \in 1..MaxMin
    /\ ScanStart

ScanNext == ProcessChunk \/ FinishScan

ScanSpec == ScanInit /\ [][ScanNext]_vars

(* The whole program on an empty dump and on a dump of two chunks whose    *)
(* store, ASCII "DD " at 1, then B at 0 and B at 4, holds both kinds of    *)
(* Finding, two Findings of equal bytes, and is not in address order       *)
SmallDump == <<EOT, LetterD, LetterD, SPACE, EOT>>

Init ==
    /\ data \in {<<>>, SmallDump}
    /\ patterns = TableAB
    /\ chunk_size = 4
    /\ min_string_length = 2
    /\ ScanStart

Next ==
    \/ ProcessChunk
    \/ FinishScan
    \/ StartUI
    \/ Draw
    \/ PollIdle
    \/ \E code \in KeyCodes : KeyEvent(code)

Spec == Init /\ [][Next]_vars

(* Runs of Up/Down presses in Normal mode, with their history *)
NavPress(code) ==
    /\ code \in {Up, Down}
    /\ popup_mode = "None"
    /\ KeyStep(code)
    /\ nav' = [nav EXCEPT !.net = @ + (IF code = Down THEN 1 ELSE -1)]
    /\ nav'.net \in (0 - MaxNet)..MaxNet
    /\ UNCHANGED <<frame, terminal>>

(* a new run of presses begins at the current selected_index *)
NavRestart ==
    /\ pc = "poll"
    /\ nav # [initial |-> selected_index, net |-> 0]
    /\ nav' = [initial |-> selected_index, net |-> 0]
    /\ UNCHANGED <<pc, dumpvars, uivars, frame, terminal>>

NavNext ==
    \/ ProcessChunk
    \/ FinishScan
    \/ StartUI
    \/ Draw
    \/ PollIdle
    \/ \E code \in {Up, Down} : NavPress(code)
    \/ NavRestart

NavSpec == Init /\ [][NavNext]_vars

(* The browser with every rendered frame recorded, driven by the keys that  *)
(* move the selection: Up, Down and a Go-to-address jump to "4"             *)
ViewKeys == {Up, Down, Enter, Esc, Char("g"), Char("4"), Char("q")}

ViewNext ==
    \/ ProcessChunk
    \/ FinishScan
    \/ StartUI
    \/ Render
    \/ PollIdle
    \/ \E code \in ViewKeys : KeyEvent(code)

ViewSpec == Init /\ [][ViewNext]_vars

(* main around run_ui, step by step, each fallible call succeeding or not *)

(* enable_raw_mode()? *)
EnableRawMode(ok) ==
    /\ pc = "scanned"
    /\ terminal = Cooked
    /\ terminal' = IF ok THEN Terminal(TRUE, "execute") ELSE Terminal(FALSE, "returned")
    /\ UNCHANGED <<pc, dumpvars, uivars, nav, frame>>

(* execute!(stdout, Clear(ClearType::All))? *)
ClearScreen(ok) ==
    /\ pc = "scanned"
    /\ terminal = Terminal(TRUE, "execute")
    /\ terminal' = IF ok THEN Terminal(TRUE, "Terminal::new") ELSE Terminal(TRUE, "returned")
    /\ UNCHANGED <<pc, dumpvars, uivars, nav, frame>>

(* Terminal::new(backend)? *)
NewTerminal(ok) ==
    /\ pc = "scanned"
    /\ terminal = Terminal(TRUE, "Terminal::new")
    /\ terminal' = IF ok THEN InRunUI ELSE Terminal(TRUE, "returned")
    /\ UNCHANGED <<pc, dumpvars, uivars, nav, frame>>

(* run_ui(&mut terminal, &results, &summary) is called *)
EnterRunUI == terminal = InRunUI /\ StartUI

(* terminal.draw(..)? fails: run_ui returns the error *)
DrawFails ==
    /\ pc = "draw"
    /\ pc' = "done"
    /\ UNCHANGED <<dumpvars, uivars, nav, frame, terminal>>

(* poll(..)? or event::read()? fails: run_ui returns the error *)
PollFails ==
    /\ pc = "poll"
    /\ pc' = "done"
    /\ UNCHANGED <<dumpvars, uivars, nav, frame, terminal>>

(* run_ui has returned, Ok or Err (the error is printed):                  *)
(* disable_raw_mode()?, and main returns                                   *)
DisableRawMode(ok) ==
    /\ pc = "done"
    /\ terminal = InRunUI
    /\ terminal' = Terminal(~ok, "returned")
    /\ UNCHANGED <<pc, dumpvars, uivars, nav, frame>>

MainKeys == {Esc, Char("q"), Char("/"), Down}

MainNext ==
    \/ ProcessChunk
    \/ FinishScan
    \/ \E ok \in BOOLEAN : EnableRawMode(ok)
    \/ \E ok \in BOOLEAN : ClearScreen(ok)
    \/ \E ok \in BOOLEAN : NewTerminal(ok)
    \/ EnterRunUI
    \/ Draw
    \/ DrawFails
    \/ PollIdle
    \/ PollFails
    \/ \E code \in MainKeys : KeyEvent(code)
    \/ \E ok \in BOOLEAN : DisableRawMode(ok)

MainSpec == Init /\ [][MainNext]_vars

(* The browser under a user who keeps pressing Esc: main runs on, every    *)
(* frame is drawn, and Esc is delivered again and again, in a popup and    *)
(* in Normal mode                                                          *)
ExitKeys == {Esc, Enter, Down, Char("/"), Char("g"), Char("4")}

ExitNext ==
    \/ ProcessChunk
    \/ FinishScan
    \/ StartUI
    \/ Draw
    \/ PollIdle
    \/ \E code \in ExitKeys : KeyEvent(code)

EscDelivered == KeyEvent(Esc)
EscDeliveredInNormal == popup_mode = "None" /\ KeyEvent(Esc)

ExitSpec ==
    /\ Init
    /\ [][ExitNext]_vars
    /\ WF_vars(ProcessChunk)
    /\ WF_vars(FinishScan)
    /\ WF_vars(StartUI)
    /\ WF_vars(Draw)
    /\ SF_vars(EscDelivered)
    /\ SF_vars(EscDeliveredInNormal)

----------------------------------------------------------------------------
(* What the claims speak of, stated on the buffer itself *)

(* the absolute offsets [ChunkBase(c), ChunkEnd(c)) of chunk c *)
ChunkBase(c) == c * chunk_size
ChunkEnd(c) == Min2((c + 1) * chunk_size, Len(data))
Scanned == 0..(chunk_i - 1)

(* printable-graphic or space *)
Printable(b) == b \in 32..126

(* bytes occur in the buffer at absolute offset a, wholly inside chunk c *)
OccurrenceIn(c, bytes, a) ==
    /\ ChunkBase(c) <= a
    /\ a + Len(bytes) <= ChunkEnd(c)
    /\ SubSeq(data, a + 1, a + Len(bytes)) = bytes

(* [s, e) is a maximal run of printable bytes of chunk c *)
MaximalRunIn(c, s, e) ==
    /\ ChunkBase(c) <= s /\ s < e /\ e <= ChunkEnd(c)
    /\ \A j \in (s + 1)..e : Printable(data[j])
    /\ (s = ChunkBase(c) \/ ~Printable(data[s]))
    /\ (e = ChunkEnd(c) \/ ~Printable(data[e + 1]))

Offsets == 0..Len(data)

PatternFindings == {j \in 1..Len(all_results) : all_results[j].kind = "Pattern"}
AsciiFindings == {j \in 1..Len(all_results) : all_results[j].kind = "ASCII String"}

\* C1: every occurrence of a table pattern that lies wholly inside one scanned
\* chunk has exactly one pattern Finding of that pattern at its absolute offset,
\* and that Finding's bytes are the pattern's bytes.
C1_EachOccurrenceOneFinding ==
    \A c \in Scanned : \A k \in 1..Len(patterns) : \A a \in Offsets :
        OccurrenceIn(c, patterns[k].bytes, a) =>
            LET hits == {j \in PatternFindings :
                            /\ all_results[j].name = patterns[k].name
                            /\ all_results[j].address = a}
            IN /\ Cardinality(hits) = 1
               /\ \A j \in hits : all_results[j].bytes = patterns[k].bytes

\* C1 witness: the scan is over; a pattern occurs at a and again at a + 1,
\* inside the span of the first occurrence, and both occurrences have their
\* Finding; and an occurrence in a chunk other than the first has its Finding at
\* its absolute offset.
C1_Witness ==
    /\ pc = "scanned"
    /\ \E c \in Scanned : \E k \in 1..Len(patterns) : \E a \in Offsets :
        /\ c >= 1
        /\ OccurrenceIn(c, patterns[k].bytes, a)
        /\ \E j \in PatternFindings : all_results[j] = PatternEntry(patterns[k], a)
    /\ \E c \in Scanned : \E k \in 1..Len(patterns) : \E a \in Offsets :
        /\ Len(patterns[k].bytes) >= 2
        /\ OccurrenceIn(c, patterns[k].bytes, a)
        /\ OccurrenceIn(c, patterns[k].bytes, a + 1)
        /\ \E i, j \in PatternFindings :
            /\ all_results[i] = PatternEntry(patterns[k], a)
            /\ all_results[j] = PatternEntry(patterns[k], a + 1)

\* C2: in every scanned chunk, a maximal run of printable bytes has exactly one
\* ASCII Finding at (chunk base + run start) when its length is at least
\* min_string_length, with exactly the run's bytes, and none when it is shorter;
\* and there are no ASCII Findings other than these.
QualifyingRuns ==
    {r \in Scanned \X Offsets \X Offsets :
        MaximalRunIn(r[1], r[2], r[3]) /\ r[3] - r[2] >= min_string_length}

C2_RunsAndFindings ==
    /\ \A c \in Scanned : \A s, e \in Offsets :
        MaximalRunIn(c, s, e) =>
            LET hits == {j \in AsciiFindings : all_results[j].address = s} IN
            IF e - s >= min_string_length
            THEN /\ Cardinality(hits) = 1
                 /\ \A j \in hits : all_results[j].bytes = SubSeq(data, s + 1, e)
            ELSE hits = {}
    /\ Cardinality(AsciiFindings) = Cardinality(QualifyingRuns)

\* C2 witness: the scan is over; some chunk other than the first has a run of
\* exactly min_string_length bytes that ends at the last byte of the chunk and
\* has its Finding, and some run one byte shorter than min_string_length has none.
C2_Witness ==
    /\ pc = "scanned"
    /\ \E c \in Scanned : \E s \in Offsets :
        /\ c >= 1
        /\ MaximalRunIn(c, s, ChunkEnd(c))
        /\ ChunkEnd(c) - s = min_string_length
        /\ \E j \in AsciiFindings :
            all_results[j] = AsciiEntry(s, SubSeq(data, s + 1, ChunkEnd(c)))
    /\ \E c \in Scanned : \E s, e \in Offsets :
        /\ MaximalRunIn(c, s, e)
        /\ e - s = min_string_length - 1
        /\ \A j \in AsciiFindings : all_results[j].address # s

(* The entries of a finite set S of ResultEntry with distinct addresses, in *)
(* ascending address                                                       *)
RECURSIVE ByAddress(_)
ByAddress(S) ==
    IF S = {} THEN <<>>
    ELSE LET first == CHOOSE x \in S : \A y \in S : x.address <= y.address
         IN <<first>> \o ByAddress(S \ {first})

RunFindingsOf(c) ==
    {AsciiEntry(r[1], SubSeq(data, r[1] + 1, r[2])) :
        r \in {q \in Offsets \X Offsets :
                 MaximalRunIn(c, q[1], q[2]) /\ q[2] - q[1] >= min_string_length}}

OccurrenceFindingsOf(c, k) ==
    {PatternEntry(patterns[k], a) :
        a \in {b \in Offsets : OccurrenceIn(c, patterns[k].bytes, b)}}

RECURSIVE PatternGroupsOf(_, _)
PatternGroupsOf(c, k) ==
    IF k > Len(patterns) THEN <<>>
    ELSE ByAddress(OccurrenceFindingsOf(c, k)) \o PatternGroupsOf(c, k + 1)

RECURSIVE StoreOfChunks(_)
StoreOfChunks(n) ==
    IF n = 0 THEN <<>>
    ELSE StoreOfChunks(n - 1)
         \o ByAddress(RunFindingsOf(n - 1)) \o PatternGroupsOf(n - 1, 1)

SortedByAddress(store) ==
    \A i, j \in 1..Len(store) : i < j => store[i].address <= store[j].address

\* C10: the FindingStore is the concatenation, over the scanned chunks in
\* increasing order, of the chunk's ASCII Findings in ascending run start followed
\* by its pattern Findings, grouped by pattern in table order and ascending in
\* offset within a pattern.
C10_StoreOrder == all_results = StoreOfChunks(chunk_i)

\* C10 witness: the scan is over, two chunks each contributed an ASCII Finding
\* and a pattern Finding, and the store is not sorted by address.
C10_Witness ==
    /\ pc = "scanned"
    /\ ~SortedByAddress(all_results)
    /\ \E c, d \in Scanned :
        /\ c # d
        /\ \A x \in {c, d} :
            /\ RunFindingsOf(x) # {}
            /\ \E k \in 1..Len(patterns) : OccurrenceFindingsOf(x, k) # {}

(* the chunk an absolute offset falls in *)
ChunkOf(a) == a \div chunk_size

(* the span [a, a + n) crosses a chunk boundary *)
Straddles(a, n) == ChunkOf(a) # ChunkOf(a + n - 1)

\* C11: chunks are scanned on their own: every Finding's span
\* [address, address + len(bytes)) lies inside one chunk; an occurrence of a
\* table pattern that crosses a chunk boundary has no Finding; every ASCII
\* Finding is a maximal printable run of one chunk, so a run that crosses a
\* boundary is reported only as its per-chunk pieces, each only when it is
\* itself min_ascii_run long.
C11_FindingsInsideOneChunk ==
    /\ \A j \in 1..Len(all_results) :
        ~Straddles(all_results[j].address, Len(all_results[j].bytes))
    /\ \A k \in 1..Len(patterns) : \A a \in Offsets :
        (/\ a + Len(patterns[k].bytes) <= Len(data)
         /\ SubSeq(data, a + 1, a + Len(patterns[k].bytes)) = patterns[k].bytes
         /\ Straddles(a, Len(patterns[k].bytes)))
        => ~\E j \in PatternFindings :
               /\ all_results[j].name = patterns[k].name
               /\ all_results[j].address = a
    /\ \A j \in AsciiFindings :
        LET f == all_results[j] IN
        /\ Len(f.bytes) >= min_string_length
        /\ \E c \in Scanned : MaximalRunIn(c, f.address, f.address + Len(f.bytes))

(* the scan is over, a table pattern occurs across a boundary, and a       *)
(* printable run crosses a boundary with its piece before the boundary     *)
(* reported and its piece after the boundary too short to be reported      *)
C11_Witness ==
    /\ pc = "scanned"
    /\ \E k \in 1..Len(patterns) : \E a \in Offsets :
        /\ a + Len(patterns[k].bytes) <= Len(data)
        /\ SubSeq(data, a + 1, a + Len(patterns[k].bytes)) = patterns[k].bytes
        /\ Straddles(a, Len(patterns[k].bytes))
    /\ \E c \in Scanned :
        LET b == ChunkBase(c) IN
        /\ c > 0 /\ b < Len(data)
        /\ Printable(data[b]) /\ Printable(data[b + 1])
        /\ \E j \in AsciiFindings :
               all_results[j].address + Len(all_results[j].bytes) = b
        /\ ~\E j \in AsciiFindings : all_results[j].address = b

\* C13: when analyze_dump has returned, the Summary's total_entries is the
\* length of the store, total_patterns the number of pattern Findings in it,
\* total_ascii_strings the number of ASCII Findings in it, so that
\* total_entries = total_patterns + total_ascii_strings; an empty buffer gives
\* an empty store and an all-zero Summary.
C13_SummaryCounts ==
    pc = "scanned" =>
        /\ summary.total_entries = Len(all_results)
        /\ summary.total_patterns = Cardinality(PatternFindings)
        /\ summary.total_ascii_strings = Cardinality(AsciiFindings)
        /\ summary.total_entries
               = summary.total_patterns + summary.total_ascii_strings
        /\ data = <<>> =>
               /\ all_results = <<>>
               /\ summary = [total_entries |-> 0, total_patterns |-> 0,
                             total_ascii_strings |-> 0]

(* a scan of several chunks that found both kinds *)
C13_Witness ==
    /\ pc = "scanned"
    /\ chunk_i >= 2
    /\ summary.total_patterns >= 2
    /\ summary.total_ascii_strings >= 1

\* C19: every Finding of the store is sound: address + len(bytes) does not
\* exceed the buffer's length and the buffer's bytes at
\* [address, address + len(bytes)) are the Finding's bytes, in every chunk.
C19_FindingsSound ==
    \A j \in 1..Len(all_results) :
        LET f == all_results[j] IN
        /\ f.address >= 0
        /\ Len(f.bytes) >= 1
        /\ f.address + Len(f.bytes) <= Len(data)
        /\ SubSeq(data, f.address + 1, f.address + Len(f.bytes)) = f.bytes

(* Findings of both kinds in a chunk after the first *)
C19_Witness ==
    /\ pc = "scanned"
    /\ \E j \in PatternFindings : all_results[j].address >= chunk_size
    /\ \E j \in AsciiFindings : all_results[j].address >= chunk_size

----------------------------------------------------------------------------
(* The browser claims.  A step of the loop that handles a key leaves       *)
(* pc = "poll" with last' the key and the mode it was matched in.          *)

Pressed(code, mode) == pc = "poll" /\ popup_mode = mode /\ last' = Matched(code, mode)
KeyHandled == pc = "poll" /\ last' # NoKey

BrowserState == <<selected_index, scroll_offset, popup_mode, input, error_message>>
StoreIndexes == 1..Len(all_results)

(* a well-formed hexadecimal byte string: pairs of hex digits *)
IsHexDigit(ch) ==
    ch \in {"0", "1", "2", "3", "4", "5", "6", "7", "8", "9",
            "a", "b", "c", "d", "e", "f", "A", "B", "C", "D", "E", "F"}
AllHexDigits(str) == \A j \in 1..Len(str) : IsHexDigit(str[j])
WellFormedHex(str) == Len(str) % 2 = 0 /\ AllHexDigits(str)
BytesOfHex(str) ==
    [j \in 1..(Len(str) \div 2) |-> 16 * to_digit(str[2 * j - 1]) + to_digit(str[2 * j])]

(* a hexadecimal address: an optional leading "0x", then hex digits *)
Has0x(str) == Len(str) >= 2 /\ str[1] = "0" /\ str[2] = "x"
AddressDigits(str) == IF Has0x(str) THEN SubSeq(str, 3, Len(str)) ELSE str
IsHexAddress(str) == AddressDigits(str) # <<>> /\ AllHexDigits(AddressDigits(str))
AddressOfHex(str) == HexValue(AddressDigits(str))

LowestIndex(S) == CHOOSE j \in S : \A q \in S : j <= q

\* C3: Enter in SearchInput, when the input is a hex byte string equal to the
\* bytes of some Finding, selects the lowest-indexed Finding with exactly those
\* bytes and returns to Normal.
C3_SearchSelectsFirstMatch ==
    [][ LET hits == {j \in StoreIndexes : all_results[j].bytes = BytesOfHex(input)} IN
        (Pressed(Enter, "Search") /\ WellFormedHex(input) /\ hits # {})
            => /\ selected_index' = LowestIndex(hits) - 1
               /\ popup_mode' = "None" ]_vars

\* C3 witness: a search has just succeeded on a byte string that two Findings
\* carry; the one selected is not the first of the store.
C3_Witness ==
    /\ last = Matched(Enter, "Search")
    /\ popup_mode = "None"
    /\ WellFormedHex(input)
    /\ selected_index > 0
    /\ all_results[selected_index + 1].bytes = BytesOfHex(input)
    /\ \E j \in StoreIndexes :
        j > selected_index + 1 /\ all_results[j].bytes = BytesOfHex(input)

\* C4: Enter in GoToAddressInput, when the input is a hex address A (an optional
\* leading "0x" stripped) and some Finding has address >= A, selects the
\* lowest-indexed Finding with address >= A and returns to Normal.
C4_GoToSelectsFirstAtOrAbove ==
    [][ LET hits == {j \in StoreIndexes : all_results[j].address >= AddressOfHex(input)} IN
        (Pressed(Enter, "GoToAddress") /\ IsHexAddress(input) /\ hits # {})
            => /\ selected_index' = LowestIndex(hits) - 1
               /\ popup_mode' = "None" ]_vars

\* C4 witness: a jump has just succeeded on an input with a leading "0x"; a
\* Finding later in the store has an address that is also >= A and is nearer to A
\* than the selected one's.
C4_Witness ==
    /\ last = Matched(Enter, "GoToAddress")
    /\ popup_mode = "None"
    /\ Has0x(input) /\ IsHexAddress(input)
    /\ all_results[selected_index + 1].address >= AddressOfHex(input)
    /\ \E j \in StoreIndexes :
        /\ j > selected_index + 1
        /\ all_results[j].address >= AddressOfHex(input)
        /\ all_results[j].address < all_results[selected_index + 1].address

\* C5 (as claimed): Enter in SearchInput on an input that is not a well-formed
\* hex byte string (odd length, or a character that is no hex digit) sets
\* error_message to "Invalid hex format", stays in SearchInput and selects
\* nothing.
C5_MalformedHexRejected ==
    [][ (Pressed(Enter, "Search") /\ ~WellFormedHex(input))
            => /\ error_message' = InvalidHexFormat
               /\ popup_mode' = "Search"
               /\ selected_index' = selected_index ]_vars

(* what a failed Enter leaves behind *)
RecoveredWith(message) ==
    /\ error_message' = message
    /\ popup_mode' = popup_mode
    /\ selected_index' = selected_index
    /\ input' = input
    /\ pc' = "draw"

\* C6: a failed Enter keeps the mode, selected_index and input_buffer, does not
\* leave the loop, and sets error_message: "No match found" in SearchInput on
\* well-formed hex that no Finding's bytes equal, "Invalid address format" in
\* GoToAddressInput on an input the address parse rejects, "Address not found" on
\* a parsed address above every Finding's address.
C6_FailedEnterRecovered ==
    [][ /\ (/\ Pressed(Enter, "Search")
            /\ WellFormedHex(input)
            /\ \A j \in StoreIndexes : all_results[j].bytes # BytesOfHex(input))
                => RecoveredWith(NoMatchFound)
        /\ (Pressed(Enter, "GoToAddress") /\ ~ParseAddress(input).some)
                => RecoveredWith(InvalidAddressFormat)
        /\ (/\ Pressed(Enter, "GoToAddress")
            /\ ParseAddress(input).some
            /\ \A j \in StoreIndexes : all_results[j].address < ParseAddress(input).val)
                => RecoveredWith(AddressNotFound) ]_vars

\* C6 witness: a search for well-formed hex bytes that no Finding of a non-empty
\* store carries has just failed; the popup is still open on the same input.
C6_Witness ==
    /\ last = Matched(Enter, "Search")
    /\ pc = "draw"
    /\ popup_mode = "Search"
    /\ all_results # <<>>
    /\ input # <<>> /\ WellFormedHex(input)
    /\ \A j \in StoreIndexes : all_results[j].bytes # BytesOfHex(input)
    /\ error_message = NoMatchFound

\* C7: when the FindingStore is non-empty, 0 <= selected_index < len(FindingStore)
\* in every reachable state.
C7_SelectedIndexInRange ==
    all_results # <<>> => (0 <= selected_index /\ selected_index < Len(all_results))

\* C7 witness: Down has just been handled at the last Finding of a store of
\* several Findings.
C7_Witness ==
    /\ last = Matched(Down, "None")
    /\ Len(all_results) > 1
    /\ selected_index = Len(all_results) - 1

Clamp(x, lo, hi) == IF x < lo THEN lo ELSE IF x > hi THEN hi ELSE x

\* C8 (as claimed): after a run of Up/Down presses in Normal mode that began at
\* selected_index = initial, selected_index = clamp(initial + net_delta, 0, len-1).
C8_ClampOfNetDelta ==
    (pc \in {"draw", "poll"} /\ all_results # <<>>)
        => selected_index = Clamp(nav.initial + nav.net, 0, Len(all_results) - 1)

\* C8 (amended): each Up or Down press in Normal mode over a non-empty store sets
\* selected_index to clamp(selected_index + d, 0, len-1), d = -1 for Up and +1
\* for Down: the clamp applies press by press.
C8_ClampOfEachPress ==
    [][ /\ (Pressed(Up, "None") /\ all_results # <<>>)
            => selected_index' = Clamp(selected_index - 1, 0, Len(all_results) - 1)
        /\ (Pressed(Down, "None") /\ all_results # <<>>)
            => selected_index' = Clamp(selected_index + 1, 0, Len(all_results) - 1) ]_vars

\* C8 witness: a run that began at index 0 has a net movement of 0 (an Up that
\* the edge absorbed, then a Down) and has just left selected_index at 1.
C8_Witness ==
    /\ last = Matched(Down, "None")
    /\ nav = [initial |-> 0, net |-> 0]
    /\ selected_index = 1

(* the (mode, key) combinations for which a transition is specified *)
Specified(code, mode) ==
    IF mode = "None"
    THEN code \in {Char("/"), Char("g"), Up, Down, Esc, Char("q")}
    ELSE code.key = "Char" \/ code \in {Backspace, Esc, Enter}

\* C9: a key event ends the loop iff the mode is Normal and the key is Esc or
\* 'q'; in SearchInput and GoToAddressInput 'q' is appended to input_buffer and
\* Esc returns to Normal; a (mode, key) combination with no specified transition
\* leaves BrowserState unchanged.
C9_ExitOnlyFromNormal ==
    [][ KeyHandled =>
        /\ pc' = "done" <=> (popup_mode = "None" /\ last'.code \in {Esc, Char("q")})
        /\ (popup_mode \in PopupModes /\ last'.code = Char("q"))
                => (input' = Append(input, "q") /\ popup_mode' = popup_mode)
        /\ (popup_mode \in PopupModes /\ last'.code = Esc) => popup_mode' = "None"
        /\ ~Specified(last'.code, popup_mode) => UNCHANGED BrowserState ]_vars

\* C9 witness: 'q' has just been typed into the Search popup; the loop goes on
\* and the input ends in 'q'.
C9_Witness ==
    /\ last = Matched(Char("q"), "Search")
    /\ pc = "draw"
    /\ popup_mode = "Search"
    /\ input # <<>> /\ input[Len(input)] = "q"

----------------------------------------------------------------------------
(* The frames *)

(* a frame has been rendered since run_ui began *)
FrameDrawn == frame # NoFrame

(* the selected Finding is among the items the frame shows *)
SelectedShown == \E r \in DOMAIN frame.items : frame.items[r].highlighted

\* C12: drawing a frame leaves BrowserState as it was, and a frame drawn right
\* after another one, with no key event in between and for the same list area,
\* renders the same output (visible items and highlighted row, details and
\* context, summary, popup).
C12_DrawPureAndIdempotent ==
    [][ (pc = "draw" /\ pc' = "poll") =>
        /\ UNCHANGED BrowserState
        /\ (FrameDrawn /\ last = NoKey /\ frame'.list_height = frame.list_height)
               => frame' = frame ]_vars

\* C14: in every frame drawn with a non-empty store and a list area of at least
\* one row, the items rendered (the Findings from scroll_offset on, as many as
\* the list area has rows) include the selected Finding.
C14_SelectedInRenderedWindow ==
    (FrameDrawn /\ all_results # <<>> /\ frame.list_height >= 1) => SelectedShown

\* C15 as stated: after each frame's recomputation of scroll_offset,
\* scroll_offset <= selected_index < scroll_offset + (rows of the list area),
\* for every number of rows the layout reports, none included.
C15_AutoScrollAnyRows ==
    (pc = "poll" /\ FrameDrawn) =>
        /\ scroll_offset <= selected_index
        /\ selected_index < scroll_offset + frame.list_height

\* C15, amended: after each frame's recomputation of scroll_offset for a list
\* area of at least one row, scroll_offset <= selected_index and
\* selected_index < scroll_offset + (rows of the list area).
C15_AutoScrollSomeRows ==
    (pc = "poll" /\ FrameDrawn /\ frame.list_height >= 1) =>
        /\ scroll_offset <= selected_index
        /\ selected_index < scroll_offset + frame.list_height

(* a frame of one row has just been drawn that did not show the selected   *)
(* Finding, the last of the store, and scroll_offset has been moved to it  *)
C15_Witness ==
    /\ pc = "poll"
    /\ frame.list_height = 1
    /\ ~SelectedShown
    /\ selected_index = Len(all_results) - 1
    /\ selected_index >= 2
    /\ scroll_offset = selected_index

----------------------------------------------------------------------------
(* The terminal *)

\* C16: raw mode is a scoped resource: whenever main has returned, on whatever
\* path (quit, an error inside the loop, a failure of the screen clearing or of
\* the terminal's construction before the loop), raw mode is off.
C16_RawModeReleased == terminal.step = "returned" => ~terminal.raw_mode

----------------------------------------------------------------------------
(* The popup's input *)

EscInPopup == KeyHandled /\ last'.code = Esc /\ popup_mode \in PopupModes

\* C17 as stated: Esc pressed in SearchInput or GoToAddressInput sets the mode
\* to Normal, leaves input_buffer empty and leaves selected_index unchanged.
C17_EscDiscardsInput ==
    [][ EscInPopup =>
        /\ popup_mode' = "None"
        /\ input' = <<>>
        /\ selected_index' = selected_index ]_vars

\* C17, amended: Esc pressed in SearchInput or GoToAddressInput sets the mode to
\* Normal and leaves selected_index, input_buffer and error_message as they
\* were (the text typed stays in input_buffer until a popup is next opened).
C17_EscKeepsInput ==
    [][ EscInPopup =>
        /\ popup_mode' = "None"
        /\ input' = input
        /\ error_message' = error_message
        /\ selected_index' = selected_index ]_vars

(* Esc has just closed a popup after a failed Enter, elsewhere than at     *)
(* the first Finding: the text and the message are still there             *)
C17_Witness ==
    /\ pc = "draw"
    /\ last.code = Esc /\ last.mode \in PopupModes
    /\ popup_mode = "None"
    /\ input # <<>>
    /\ error_message # NoMessage
    /\ selected_index > 0

(* input.pop() *)
WithoutLast(text) == IF text = <<>> THEN <<>> ELSE SubSeq(text, 1, Len(text) - 1)

\* C18: a step that takes the mode from Normal to SearchInput or
\* GoToAddressInput is the handling of '/' or 'g' and leaves input_buffer empty
\* and error_message absent, whatever they held; while the mode stays
\* SearchInput or GoToAddressInput, a character key appends that character to
\* input_buffer, Backspace removes the last character (nothing when it is
\* empty), and every other step leaves input_buffer as it is.
C18_InputIsWhatWasTyped ==
    [][ /\ (popup_mode = "None" /\ popup_mode' \in PopupModes) =>
            /\ KeyHandled
            /\ last'.code = (IF popup_mode' = "Search" THEN Char("/") ELSE Char("g"))
            /\ input' = <<>>
            /\ error_message' = NoMessage
        /\ (popup_mode \in PopupModes /\ popup_mode' = popup_mode) =>
            input' = IF ~KeyHandled THEN input
                     ELSE IF last'.code.key = "Char" THEN Append(input, last'.code.c)
                     ELSE IF last'.code = Backspace THEN WithoutLast(input)
                     ELSE input ]_vars

(* Backspace has just removed the last of the characters typed into the   *)
(* Go-to-address popup                                                     *)
C18_Witness ==
    /\ pc = "draw"
    /\ last = Matched(Backspace, "GoToAddress")
    /\ popup_mode = "GoToAddress"
    /\ Len(input) = MaxInput - 1

----------------------------------------------------------------------------
(* The way out *)

\* C20: there is no trap state: wherever the loop waits for an event, Esc can
\* be handled; Esc handled in a popup gives Normal mode and Esc handled in
\* Normal mode ends the loop, so two Esc presses in a row end it from any mode,
\* input, error and selection, with an empty store too; and when Esc keeps
\* being delivered the loop terminates.
C20_EscAlwaysLeadsOut ==
    /\ [](pc = "poll" => ENABLED EscDelivered)
    /\ [][ (KeyHandled /\ last'.code = Esc) =>
             IF popup_mode = "None" THEN pc' = "done"
             ELSE popup_mode' = "None" /\ pc' = "draw" ]_vars
    /\ (pc \in {"draw", "poll"}) ~> (pc = "done")

(* the loop has ended by Esc after a popup session that failed, elsewhere *)
(* than at the first Finding                                               *)
C20_Witness ==
    /\ pc = "done"
    /\ last = Matched(Esc, "None")
    /\ input # <<>>
    /\ error_message # NoMessage
    /\ selected_index > 0

====
